---- MODULE Spec2Model ----
(***************************************************************************)
(* Session manager (AuthProvider), permission evaluator (UserRoleProvider),*)
(* route guard (App.jsx) and API client interceptors (tailingsIQApi.js) of *)
(* the TailingsIQ frontend, as one state machine.                          *)
(*                                                                         *)
(* A step is one run-to-completion piece of JavaScript: an event handler   *)
(* up to its first await, the continuation of an await when the response   *)
(* arrives, or the flush of React's pending effects.  React state set in   *)
(* one such piece is committed together (automatic batching).              *)
(***************************************************************************)
EXTENDS Integers, FiniteSets, Sequences, Bags, TLC

\* ------------------------------------------------------------------------
\* Bounds of the model
\* ------------------------------------------------------------------------
\* number of requests that may be in flight at once
MaxInFlight == 2
\* number of accounts the backend knows (account i is issued token i)
MaxAccounts == 2

\* ------------------------------------------------------------------------
\* Static configuration (UserRoleContext.jsx)
\* ------------------------------------------------------------------------
Null == "null"

USER_ROLES ==
  << "super_admin", "admin", "engineer_of_record", "tsf_operator",
     "regulator", "management", "consultant", "viewer" >>

Roles == { USER_ROLES[i] : i \in DOMAIN USER_ROLES }

\* the levels handed out in the order of the USER_ROLES enum, which lists
\* tsf_operator and regulator before management
ROLE_HIERARCHY_EnumOrder ==
  [ super_admin        |-> 8,
    admin              |-> 7,
    engineer_of_record |-> 6,
    tsf_operator       |-> 5,
    regulator          |-> 4,
    management         |-> 3,
    consultant         |-> 2,
    viewer             |-> 1 ]

ROLE_HIERARCHY ==
  [ super_admin        |-> 8,
    admin              |-> 7,
    engineer_of_record |-> 6,
    management         |-> 5,
    tsf_operator       |-> 4,
    regulator          |-> 3,
    consultant         |-> 2,
    viewer             |-> 1 ]

PERMISSIONS ==
  [ canAccessAdminPanel |-> {"super_admin", "admin"},
    canManageUsers      |-> {"super_admin", "admin"},
    canDeleteUsers      |-> {"super_admin"},
    canResetPasswords   |-> {"super_admin", "admin"},
    canUploadDocuments  |-> {"super_admin", "admin", "engineer_of_record",
                             "tsf_operator", "management"},
    canDeleteDocuments  |-> {"super_admin", "admin", "engineer_of_record"},
    canViewAllDocuments |-> {"super_admin", "admin", "engineer_of_record",
                             "regulator", "management"},
    canViewMonitoring   |-> {"super_admin", "admin", "engineer_of_record",
                             "tsf_operator", "regulator", "management",
                             "consultant", "viewer"},
    canEditMonitoring   |-> {"super_admin", "admin", "engineer_of_record",
                             "tsf_operator"},
    canViewCompliance   |-> {"super_admin", "admin", "engineer_of_record",
                             "regulator", "management"},
    canEditCompliance   |-> {"super_admin", "admin", "engineer_of_record"},
    canUseAIQuery       |-> {"super_admin", "admin", "engineer_of_record",
                             "tsf_operator", "regulator", "management",
                             "consultant"},
    canGenerateSyntheticData |-> {"super_admin", "admin", "engineer_of_record"},
    canViewSyntheticData |-> {"super_admin", "admin", "engineer_of_record",
                              "tsf_operator"} ]

\* ROLE_HIERARCHY[role] || 0
LevelOf(role) == IF role \in DOMAIN ROLE_HIERARCHY THEN ROLE_HIERARCHY[role] ELSE 0

\* hasPermission granting a known permission to every role, without looking
\* the role up in the permission's list
hasPermissionAnyRole(role, permission) ==
  role # Null /\ permission \in DOMAIN PERMISSIONS

\* hasPermission deciding by hierarchy level instead of by membership: every
\* role at or above the lowest permitted level is let through
hasPermissionByLevel(role, permission) ==
  IF role = Null \/ permission \notin DOMAIN PERMISSIONS
    THEN FALSE
    ELSE \E allowed \in PERMISSIONS[permission] : LevelOf(role) >= LevelOf(allowed)

\* hasPermission(permission), with the provider's userRole passed explicitly
hasPermission(role, permission) ==
  IF role = Null \/ permission \notin DOMAIN PERMISSIONS
    THEN FALSE
    ELSE role \in PERMISSIONS[permission]


\* hasRoleLevel(requiredLevel), with the provider's roleLevel passed explicitly
hasRoleLevel(level, requiredLevel) == level >= requiredLevel

\* hasHigherRoleThan letting an equal level through
hasHigherRoleThanOrEqual(level, otherUserRole) == level >= LevelOf(otherUserRole)

\* hasHigherRoleThan(otherUserRole), with the provider's roleLevel
hasHigherRoleThan(level, otherUserRole) == level > LevelOf(otherUserRole)

\* the role argument of getRoleDisplayName / getRoleColor left out
Default == "default"

\* getRoleDisplayName(role = userRole): roleNames[role] || 'Unknown Role'
getRoleDisplayName(current, role) ==
  LET roleNames == [ super_admin        |-> "Super Administrator",
                     admin              |-> "Administrator",
                     engineer_of_record |-> "Engineer of Record",
                     tsf_operator       |-> "TSF Operator",
                     regulator          |-> "Regulator",
                     management         |-> "Management",
                     consultant         |-> "Consultant",
                     viewer             |-> "Viewer" ]
      asked == IF role = Default THEN current ELSE role
  IN  IF asked \in DOMAIN roleNames THEN roleNames[asked] ELSE "Unknown Role"

\* getRoleColor(role = userRole): roleColors[role] || '#616161'
getRoleColor(current, role) ==
  LET roleColors == [ super_admin        |-> "#d32f2f",
                      admin              |-> "#f57c00",
                      engineer_of_record |-> "#006039",
                      tsf_operator       |-> "#1976d2",
                      regulator          |-> "#7b1fa2",
                      management         |-> "#388e3c",
                      consultant         |-> "#0288d1",
                      viewer             |-> "#616161" ]
      asked == IF role = Default THEN current ELSE role
  IN  IF asked \in DOMAIN roleColors THEN roleColors[asked] ELSE "#616161"

\* getAvailableRoles offering every role of the enum, whatever the caller's level
getAvailableRolesUnfiltered(level) == USER_ROLES

\* getAvailableRoles leaving out the roles of the caller's own level
getAvailableRolesBelow(level) ==
  LET Keep(role) == LevelOf(role) < level
  IN  SelectSeq(USER_ROLES, Keep)

\* getAvailableRoles(): the values of USER_ROLES, in the order of the enum,
\* whose level is at most the provider's roleLevel (label and color are
\* getRoleDisplayName(value) and getRoleColor(value))
getAvailableRoles(level) ==
  LET Keep(role) == LevelOf(role) <= level
  IN  SelectSeq(USER_ROLES, Keep)

\* ------------------------------------------------------------------------
\* Values
\* ------------------------------------------------------------------------
\* localStorage.getItem(...) === null, useState(null) for the token
NoToken == 0
Accounts == 1..MaxAccounts
Tokens == Accounts

\* facilities_access: absent, or a list of facility ids
NoFacilities == [present |-> FALSE, ids |-> {}]

\* useState(null) for currentUser
NoUser == [id |-> 0, role |-> Null, updated |-> FALSE, facilities_access |-> NoFacilities]

\* canAccessFacility taking the absence of a list for unrestricted access
canAccessFacilityUnrestricted(user, role, facilityId) ==
  IF ~user.facilities_access.present
    THEN TRUE
    ELSE \/ facilityId \in user.facilities_access.ids
         \/ hasPermission(role, "canViewAllDocuments")

\* canAccessFacility(facilityId), with currentUser and the provider's userRole
canAccessFacility(user, role, facilityId) ==
  IF ~user.facilities_access.present
    THEN hasPermission(role, "canViewAllDocuments")
    ELSE \/ facilityId \in user.facilities_access.ids
         \/ hasPermission(role, "canViewAllDocuments")

\* the role the backend holds for account a: 1 super_admin, 2 viewer, 3 consultant, ...
AccountRole(a) == USER_ROLES[(((a - 1) * 7) % 8) + 1]

\* the user object the backend answers with for account a (response.data / user);
\* updated: it carries the profile fields this page has PUT
UserData(a, updated) ==
  [id |-> a, role |-> AccountRole(a), updated |-> updated,
   facilities_access |-> NoFacilities]

\* outcomes of a request: a 2xx response, a 401 response, another error response
\* carrying a detail field, or no response at all
Outcomes == {"ok", "unauthorized", "error_detail", "network"}
Failures == Outcomes \ {"ok"}

Paths == {"/login", "/dashboard", "/documents", "/monitoring", "/ai-query",
          "/compliance", "/users", "/", "/other"}

\* nothing completed in this step
NoReturn == [op |-> "none", success |-> FALSE, error |-> "", outcome |-> "none",
             afterLogout |-> FALSE, raised |-> FALSE]

\* operation op completed in this step, on the answer to request r (its outcome,
\* whether a logout had cleared the session while r was in flight), and returned
\* success / error to its caller
Returned(op, r, outcome, success, error) ==
  [op |-> op, success |-> success, error |-> error, outcome |-> outcome,
   afterLogout |-> r.loggedOut, raised |-> FALSE]

\* operation op completed in this step by throwing to its caller
Raised(op, r, outcome) ==
  [Returned(op, r, outcome, FALSE, "") EXCEPT !.raised = TRUE]

\* an operation that completed without waiting for any request
NoRequest == [op |-> "none", bearer |-> NoToken, arg |-> 0, loggedOut |-> FALSE]

VARIABLES
  stored,       \* localStorage['tailingsiq_token']
  token,        \* AuthProvider state: token
  currentUser,  \* AuthProvider state: currentUser
  loading,      \* AuthProvider state: loading
  authHeader,   \* tailingsIQApi.defaults.headers.common['Authorization']
  userRole,     \* UserRoleProvider state: userRole
  roleLevel,    \* UserRoleProvider state: roleLevel
  path,         \* router location
  inflight,     \* requests sent and not yet answered
  navPending,   \* window.location.href = '/login' assigned, document not yet replaced
  effToken,     \* the [token] effect of AuthProvider is pending
  effUser,      \* the [currentUser] effect of UserRoleProvider is pending
  ret,          \* the operation that completed in this step and what it returned
  query,        \* the evaluator query asked in this step
  answer,       \* and its answer
  apiLoading,   \* useAPI state: loading
  apiError      \* useAPI state: error

sessionVars == << stored, token, currentUser, loading, authHeader >>
roleVars == << userRole, roleLevel >>
evalVars == << query, answer >>
hookVars == << apiLoading, apiError >>
vars == << stored, token, currentUser, loading, authHeader, userRole, roleLevel,
           path, inflight, navPending, effToken, effUser, ret,
           query, answer, apiLoading, apiError >>

\* ------------------------------------------------------------------------
\* Route table and route guard (App.jsx)
\* ------------------------------------------------------------------------
ProtectedPaths == {"/dashboard", "/documents", "/monitoring", "/ai-query",
                   "/compliance", "/users"}

\* the route table with a permission demanded for /dashboard as well, one the
\* evaluator grants to nobody
RequiredPermissionOnDashboard(p) ==
  CASE p = "/dashboard"  -> "canViewDashboard"
    [] p = "/documents"  -> "canViewDocuments"
    [] p = "/monitoring" -> "canViewMonitoring"
    [] p = "/ai-query"   -> "canUseAIQuery"
    [] p = "/compliance" -> "canViewCompliance"
    [] p = "/users"      -> "canAccessAdminPanel"
    [] OTHER             -> Null

\* requiredPermission of each protected route (Null: none)
RequiredPermission(p) ==
  CASE p = "/dashboard"  -> Null
    [] p = "/documents"  -> "canViewDocuments"
    [] p = "/monitoring" -> "canViewMonitoring"
    [] p = "/ai-query"   -> "canUseAIQuery"
    [] p = "/compliance" -> "canViewCompliance"
    [] p = "/users"      -> "canAccessAdminPanel"
    [] OTHER             -> Null

\* ProtectedRoute without its permission check
ProtectedRouteNoPermission(isLoading, user, role, requiredPermission) ==
  IF isLoading THEN "spinner"
  ELSE IF user = NoUser THEN "to_login"
  ELSE "children"

\* what ProtectedRoute returns for the state a render sees
ProtectedRoute(isLoading, user, role, requiredPermission) ==
  IF isLoading THEN "spinner"
  ELSE IF user = NoUser THEN "to_login"
  ELSE IF requiredPermission # Null /\ ~hasPermission(role, requiredPermission)
    THEN "to_dashboard"
  ELSE "children"

\* the element <Routes> renders for a location
RouteElement(p, isLoading, user, role) ==
  IF p = "/login" THEN "login_page"
  ELSE IF p \in ProtectedPaths
    THEN ProtectedRoute(isLoading, user, role, RequiredPermission(p))
  ELSE "to_dashboard"

\* where the element rendered for location p sends the router: the target of
\* its <Navigate>, or p itself when it renders a page or the spinner
NavigateTarget(p, isLoading, user, role) ==
  LET element == RouteElement(p, isLoading, user, role)
  IN  CASE element = "to_login"     -> "/login"
        [] element = "to_dashboard" -> "/dashboard"
        [] OTHER                    -> p

\* what the committed render shows
View == RouteElement(path, loading, currentUser, userRole)

\* the target of the <Navigate> the committed render holds, if any
RedirectTarget ==
  CASE View = "to_login"     -> "/login"
    [] View = "to_dashboard" -> "/dashboard"
    [] OTHER                 -> path

EffectsPending == effToken \/ effUser \/ RedirectTarget # path

\* ------------------------------------------------------------------------
\* API client (tailingsIQApi.js)
\* ------------------------------------------------------------------------
\* request interceptor over the client's default headers: the bearer a request
\* leaves with
Bearer(storedToken, defaultHeader) ==
  IF storedToken # NoToken THEN storedToken ELSE defaultHeader

\* response interceptor: the stored token after a response with this outcome
InterceptStored(storedToken, outcome) ==
  IF outcome = "unauthorized" THEN NoToken ELSE storedToken

\* response interceptor: whether window.location.href = '/login' was assigned
InterceptNav(pending, outcome) == pending \/ outcome = "unauthorized"

\* error.response?.data?.detail || fallback
ErrorMessage(outcome, fallback) ==
  IF outcome \in {"unauthorized", "error_detail"} THEN "detail" ELSE fallback

\* tailingsIQApi.<method>(...): the request leaves with the interceptor's bearer,
\* computed over the default header in force when it is sent
Request(op, arg, defaultHeader) ==
  [op |-> op, bearer |-> Bearer(stored, defaultHeader), arg |-> arg,
   loggedOut |-> FALSE]

Send(op, arg, defaultHeader) ==
  /\ BagCardinality(inflight) < MaxInFlight
  /\ inflight' = inflight (+) SetToBag({Request(op, arg, defaultHeader)})

\* the requests in flight other than r, which is being answered
Answered(r) == inflight (-) SetToBag({r})

InFlight == BagToSet(inflight)

\* the requests still in flight when a logout clears the session are marked
MarkLoggedOut(reqs) ==
  LET Mark(r) == [r EXCEPT !.loggedOut = TRUE]
      Unmark(r) == [r EXCEPT !.loggedOut = FALSE]
      Count(r) == IF r \in DOMAIN reqs THEN reqs[r] ELSE 0
  IN  [ m \in { Mark(r) : r \in DOMAIN reqs } |-> Count(m) + Count(Unmark(m)) ]

\* ------------------------------------------------------------------------
\* Start of the page
\* ------------------------------------------------------------------------
NoQuery == [fn |-> "none", arg |-> Null, level |-> 0]

\* the query fn(arg) (for hasRoleLevel: fn(level)) being asked
Query(fn, arg, level) == [fn |-> fn, arg |-> arg, level |-> level]

\* a step in which no component asks the evaluator anything
NoQueryAsked ==
  /\ query' = NoQuery
  /\ answer' = FALSE

\* a freshly loaded document: AuthProvider, UserRoleProvider and the
\* components and their hooks mount
Mounted(p) ==
  /\ token = stored
  /\ currentUser = NoUser
  /\ loading = TRUE
  /\ authHeader = NoToken
  /\ userRole = Null
  /\ roleLevel = 0
  /\ path = p
  /\ inflight = EmptyBag
  /\ navPending = FALSE
  /\ effToken = TRUE
  /\ effUser = TRUE
  /\ ret = NoReturn
  /\ apiLoading = FALSE
  /\ apiError = Null

Init ==
  /\ stored \in Tokens \cup {NoToken}
  /\ \E p \in Paths : Mounted(p)
  /\ query = NoQuery
  /\ answer = FALSE

\* ------------------------------------------------------------------------
\* Effects (flushed after the commit of a render, before anything else runs)
\* ------------------------------------------------------------------------
\* UserRoleProvider: useEffect(..., [currentUser])
RoleEffect ==
  IF effUser
    THEN IF currentUser.role # Null
           THEN /\ userRole' = currentUser.role
                /\ roleLevel' = LevelOf(currentUser.role)
           ELSE /\ userRole' = Null
                /\ roleLevel' = 0
    ELSE UNCHANGED roleVars

\* the [token] effect with a validateToken that raises loading again while it
\* waits for /auth/me
TokenEffectSetsLoading ==
  IF effToken
    THEN IF token # NoToken
           THEN /\ authHeader' = token
                /\ Send("me", 0, token)
                /\ loading' = TRUE
           ELSE /\ loading' = FALSE
                /\ UNCHANGED << authHeader, inflight >>
    ELSE UNCHANGED << authHeader, inflight, loading >>

\* AuthProvider: useEffect(..., [token]), with validateToken up to its await
TokenEffect ==
  IF effToken
    THEN IF token # NoToken
           THEN /\ authHeader' = token
                /\ Send("me", 0, token)
                /\ UNCHANGED loading
           ELSE /\ loading' = FALSE
                /\ UNCHANGED << authHeader, inflight >>
    ELSE UNCHANGED << authHeader, inflight, loading >>

RunEffects ==
  /\ EffectsPending
  /\ path' = RedirectTarget
  /\ RoleEffect
  /\ TokenEffect
  /\ effToken' = FALSE
  /\ effUser' = FALSE
  /\ ret' = IF effToken /\ token = NoToken
              THEN Returned("initialize", NoRequest, "none", TRUE, "")
              ELSE NoReturn
  /\ NoQueryAsked
  /\ UNCHANGED << stored, token, currentUser, navPending, hookVars >>

\* what a commit leaves pending: the dependencies that changed
Commit ==
  /\ effToken' = (token' # token)
  /\ effUser' = (currentUser' # currentUser)

\* ------------------------------------------------------------------------
\* AuthProvider.validateToken, after its await
\* ------------------------------------------------------------------------
\* try: setCurrentUser(response.data)
ValidateSucceeds(r) ==
  /\ currentUser' = UserData(r.bearer, FALSE)
  /\ UNCHANGED << stored, token, authHeader, navPending >>

\* the response interceptor, then catch: clear the invalid token
ValidateFails(r, outcome) ==
  /\ stored' = NoToken
  /\ token' = NoToken
  /\ currentUser' = NoUser
  /\ authHeader' = NoToken
  /\ navPending' = InterceptNav(navPending, outcome)

\* GET /auth/me is answered: try or catch, then finally: setLoading(false)
MeResponse(r, outcome) ==
  /\ ~EffectsPending
  /\ r \in InFlight
  /\ r.op = "me"
  /\ IF outcome = "ok"
       THEN r.bearer # NoToken /\ ValidateSucceeds(r)
       ELSE ValidateFails(r, outcome)
  /\ loading' = FALSE
  /\ inflight' = Answered(r)
  /\ Commit
  /\ ret' = Returned("validateToken", r, outcome, outcome = "ok", "")
  /\ UNCHANGED << roleVars, path, evalVars, hookVars >>

\* ------------------------------------------------------------------------
\* AuthProvider.login, called by LoginPage.handleSubmit
\* ------------------------------------------------------------------------
\* handleSubmit: both fields filled in, await login(username, password)
HandleSubmit(a) ==
  /\ ~EffectsPending
  /\ View = "login_page"
  /\ Send("login", a, authHeader)
  /\ ret' = NoReturn
  /\ UNCHANGED << sessionVars, roleVars, path, navPending, effToken, effUser,
                  evalVars, hookVars >>

\* login storing the token and leaving currentUser to the validation that the
\* new token triggers
LoginSucceedsTokenOnly(r) ==
  /\ stored' = r.arg
  /\ token' = r.arg
  /\ authHeader' = r.arg
  /\ ret' = Returned("login", r, "ok", TRUE, "")
  /\ UNCHANGED << currentUser, navPending >>

\* try: store the token, set it in the client, set the current user
LoginSucceeds(r) ==
  /\ stored' = r.arg
  /\ token' = r.arg
  /\ authHeader' = r.arg
  /\ currentUser' = UserData(r.arg, FALSE)
  /\ ret' = Returned("login", r, "ok", TRUE, "")
  /\ UNCHANGED navPending

\* login's catch reading error.response.data.detail without the optional
\* chaining and without the default: with no response there is no
\* error.response, and the catch itself throws
LoginFailsUnguarded(r, outcome) ==
  /\ stored' = InterceptStored(stored, outcome)
  /\ navPending' = InterceptNav(navPending, outcome)
  /\ ret' = IF outcome = "network"
              THEN Raised("login", r, outcome)
              ELSE Returned("login", r, outcome, FALSE, "detail")
  /\ UNCHANGED << token, currentUser, authHeader >>

\* the response interceptor, then catch: return { success: false, error }
LoginFails(r, outcome) ==
  /\ stored' = InterceptStored(stored, outcome)
  /\ navPending' = InterceptNav(navPending, outcome)
  /\ ret' = Returned("login", r, outcome, FALSE, ErrorMessage(outcome, "Login failed"))
  /\ UNCHANGED << token, currentUser, authHeader >>

\* POST /auth/login is answered; login returns and handleSubmit goes on to
\* navigate(from, { replace: true }), from being /dashboard
LoginResponse(r, outcome) ==
  /\ ~EffectsPending
  /\ r \in InFlight
  /\ r.op = "login"
  /\ IF outcome = "ok"
       THEN LoginSucceeds(r)
       ELSE LoginFails(r, outcome)
  /\ path' = "/dashboard"
  /\ inflight' = Answered(r)
  /\ Commit
  /\ UNCHANGED << loading, roleVars, evalVars, hookVars >>

\* ------------------------------------------------------------------------
\* AuthProvider.logout
\* ------------------------------------------------------------------------
\* finally: clear local state regardless of server response
LogoutFinally ==
  /\ stored' = NoToken
  /\ token' = NoToken
  /\ currentUser' = NoUser
  /\ authHeader' = NoToken

\* logout(): with a token, POST /auth/logout and await it; without one the
\* try block is empty and finally runs at once
LogoutCall ==
  /\ ~EffectsPending
  /\ IF token # NoToken
       THEN /\ Send("logout", 0, authHeader)
            /\ ret' = NoReturn
            /\ UNCHANGED << sessionVars, effToken, effUser >>
       ELSE /\ LogoutFinally
            /\ ret' = Returned("logout", NoRequest, "none", TRUE, "")
            /\ inflight' = MarkLoggedOut(inflight)
            /\ Commit
            /\ UNCHANGED loading
  /\ UNCHANGED << roleVars, path, navPending, evalVars, hookVars >>

\* logout clearing the local state in its try block, after the await, instead
\* of in finally: a failed server call leaves the session as it was
LogoutResponseClearsInTry(r, outcome) ==
  /\ ~EffectsPending
  /\ r \in InFlight
  /\ r.op = "logout"
  /\ navPending' = InterceptNav(navPending, outcome)
  /\ IF outcome = "ok"
       THEN LogoutFinally
       ELSE /\ stored' = InterceptStored(stored, outcome)
            /\ UNCHANGED << token, currentUser, authHeader >>
  /\ ret' = Returned("logout", r, outcome, outcome = "ok", "")
  /\ inflight' = MarkLoggedOut(Answered(r))
  /\ Commit
  /\ UNCHANGED << loading, roleVars, path, evalVars, hookVars >>

\* POST /auth/logout is answered: the response interceptor, catch, finally
LogoutResponse(r, outcome) ==
  /\ ~EffectsPending
  /\ r \in InFlight
  /\ r.op = "logout"
  /\ navPending' = InterceptNav(navPending, outcome)
  /\ LogoutFinally
  /\ ret' = Returned("logout", r, outcome, outcome = "ok", "")
  /\ inflight' = MarkLoggedOut(Answered(r))
  /\ Commit
  /\ UNCHANGED << loading, roleVars, path, evalVars, hookVars >>

\* ------------------------------------------------------------------------
\* AuthProvider.updateProfile
\* ------------------------------------------------------------------------
UpdateProfileCall ==
  /\ ~EffectsPending
  /\ Send("profile", 0, authHeader)
  /\ ret' = NoReturn
  /\ UNCHANGED << sessionVars, roleVars, path, navPending, effToken, effUser,
                  evalVars, hookVars >>

\* try: setCurrentUser(response.data)
UpdateProfileSucceeds(r) ==
  /\ currentUser' = UserData(r.bearer, TRUE)
  /\ ret' = Returned("updateProfile", r, "ok", TRUE, "")
  /\ UNCHANGED << stored, token, authHeader, navPending >>

\* the response interceptor, then catch: return { success: false, error }
UpdateProfileFails(r, outcome) ==
  /\ stored' = InterceptStored(stored, outcome)
  /\ navPending' = InterceptNav(navPending, outcome)
  /\ ret' = Returned("updateProfile", r, outcome, FALSE,
                      ErrorMessage(outcome, "Profile update failed"))
  /\ UNCHANGED << token, currentUser, authHeader >>

UpdateProfileResponse(r, outcome) ==
  /\ ~EffectsPending
  /\ r \in InFlight
  /\ r.op = "profile"
  /\ IF outcome = "ok"
       THEN r.bearer # NoToken /\ UpdateProfileSucceeds(r)
       ELSE UpdateProfileFails(r, outcome)
  /\ inflight' = Answered(r)
  /\ Commit
  /\ UNCHANGED << loading, roleVars, path, evalVars, hookVars >>

\* ------------------------------------------------------------------------
\* AuthProvider.changePassword, requestPasswordReset, resetPassword
\* ------------------------------------------------------------------------
\* the three operations, with the request each posts
PasswordOps == {"changePassword", "requestPasswordReset", "resetPassword"}

\* the default message of each catch
PasswordFallback ==
  [ changePassword       |-> "Password change failed",
    requestPasswordReset |-> "Password reset request failed",
    resetPassword        |-> "Password reset failed" ]

\* up to the await: the POST leaves
PasswordCall(op) ==
  /\ ~EffectsPending
  /\ Send(op, 0, authHeader)
  /\ ret' = NoReturn
  /\ UNCHANGED << sessionVars, roleVars, path, navPending, effToken, effUser,
                  evalVars, hookVars >>

\* try: return { success: true }
PasswordSucceeds(r) ==
  /\ ret' = Returned(r.op, r, "ok", TRUE, "")
  /\ UNCHANGED << stored, token, currentUser, authHeader, navPending >>

\* the response interceptor, then catch: return { success: false, error }
PasswordFails(r, outcome) ==
  /\ stored' = InterceptStored(stored, outcome)
  /\ navPending' = InterceptNav(navPending, outcome)
  /\ ret' = Returned(r.op, r, outcome, FALSE,
                      ErrorMessage(outcome, PasswordFallback[r.op]))
  /\ UNCHANGED << token, currentUser, authHeader >>

\* the POST is answered (the backend changes the password of a signed-in
\* account only)
PasswordResponse(r, outcome) ==
  /\ ~EffectsPending
  /\ r \in InFlight
  /\ r.op \in PasswordOps
  /\ IF outcome = "ok"
       THEN (r.op = "changePassword" => r.bearer # NoToken) /\ PasswordSucceeds(r)
       ELSE PasswordFails(r, outcome)
  /\ inflight' = Answered(r)
  /\ Commit
  /\ UNCHANGED << loading, roleVars, path, evalVars, hookVars >>

\* ------------------------------------------------------------------------
\* Any other call through the API client (users.getUsers, documents..., ...)
\* ------------------------------------------------------------------------
ApiCall ==
  /\ ~EffectsPending
  /\ Send("api", 0, authHeader)
  /\ ret' = NoReturn
  /\ UNCHANGED << sessionVars, roleVars, path, navPending, effToken, effUser,
                  evalVars, hookVars >>

\* the response interceptor is all that touches the session
ApiResponse(r, outcome) ==
  /\ ~EffectsPending
  /\ r \in InFlight
  /\ r.op = "api"
  /\ outcome = "ok" => r.bearer # NoToken
  /\ stored' = InterceptStored(stored, outcome)
  /\ navPending' = InterceptNav(navPending, outcome)
  /\ inflight' = Answered(r)
  /\ ret' = IF outcome = "ok"
              THEN Returned("api", r, outcome, TRUE, "")
              ELSE Raised("api", r, outcome)
  /\ UNCHANGED << token, currentUser, loading, authHeader, roleVars, path,
                  effToken, effUser, evalVars, hookVars >>

\* ------------------------------------------------------------------------
\* hooks/useAuth: refreshToken
\* ------------------------------------------------------------------------
\* tailingsIQApi.auth.refreshToken(): the exchange request of the current token
RefreshCall ==
  /\ ~EffectsPending
  /\ Send("refresh", 0, authHeader)
  /\ ret' = NoReturn
  /\ UNCHANGED << sessionVars, roleVars, path, navPending, effToken, effUser,
                  evalVars, hookVars >>

\* refreshToken installing the token it was answered with
RefreshSucceedsStoresToken(r) ==
  /\ stored' = r.bearer
  /\ token' = r.bearer
  /\ authHeader' = r.bearer
  /\ ret' = Returned("refreshToken", r, "ok", TRUE, "")
  /\ UNCHANGED << currentUser, navPending >>

\* try: return response.data
RefreshSucceeds(r) ==
  /\ ret' = Returned("refreshToken", r, "ok", TRUE, "")
  /\ UNCHANGED << stored, token, currentUser, authHeader, navPending >>

\* the response interceptor, then catch: handleError(err) records the message
\* (err.response?.data?.detail || err.message) and the error is thrown again
RefreshFails(r, outcome) ==
  /\ stored' = InterceptStored(stored, outcome)
  /\ navPending' = InterceptNav(navPending, outcome)
  /\ ret' = [Raised("refreshToken", r, outcome)
               EXCEPT !.error = ErrorMessage(outcome, "Network Error")]
  /\ UNCHANGED << token, currentUser, authHeader >>

RefreshResponse(r, outcome) ==
  /\ ~EffectsPending
  /\ r \in InFlight
  /\ r.op = "refresh"
  /\ IF outcome = "ok"
       THEN r.bearer # NoToken /\ RefreshSucceeds(r)
       ELSE RefreshFails(r, outcome)
  /\ inflight' = Answered(r)
  /\ Commit
  /\ UNCHANGED << loading, roleVars, path, evalVars, hookVars >>

\* ------------------------------------------------------------------------
\* Navigation
\* ------------------------------------------------------------------------
\* the document assigned to window.location.href replaces the page: every
\* piece of JavaScript state is lost, localStorage is kept
Reload ==
  /\ navPending
  /\ token' = stored
  /\ currentUser' = NoUser
  /\ loading' = TRUE
  /\ authHeader' = NoToken
  /\ userRole' = Null
  /\ roleLevel' = 0
  /\ path' = "/login"
  /\ inflight' = EmptyBag
  /\ navPending' = FALSE
  /\ effToken' = TRUE
  /\ effUser' = TRUE
  /\ ret' = NoReturn
  /\ apiLoading' = FALSE
  /\ apiError' = Null
  /\ UNCHANGED << stored, evalVars >>

\* a link, the sidebar or the history moves the router to another location
UserNavigate(p) ==
  /\ ~EffectsPending
  /\ p # path
  /\ path' = p
  /\ ret' = NoReturn
  /\ UNCHANGED << sessionVars, roleVars, inflight, navPending, effToken,
                  effUser, evalVars, hookVars >>

\* ------------------------------------------------------------------------
\* The session specification
\* ------------------------------------------------------------------------
Next ==
  \/ RunEffects
  \/ \E r \in InFlight, outcome \in Outcomes : MeResponse(r, outcome)
  \/ \E a \in Accounts : HandleSubmit(a)
  \/ \E r \in InFlight, outcome \in Outcomes : LoginResponse(r, outcome)
  \/ LogoutCall
  \/ \E r \in InFlight, outcome \in Outcomes : LogoutResponse(r, outcome)
  \/ UpdateProfileCall
  \/ \E r \in InFlight, outcome \in Outcomes : UpdateProfileResponse(r, outcome)
  \/ ApiCall
  \/ \E r \in InFlight, outcome \in Outcomes : ApiResponse(r, outcome)
  \/ RefreshCall
  \/ \E r \in InFlight, outcome \in Outcomes : RefreshResponse(r, outcome)
  \/ Reload
  \/ \E p \in Paths : UserNavigate(p)

Spec == Init /\ [][Next]_vars

\* ------------------------------------------------------------------------
\* The account specification: the operations AuthProvider hands to the pages
\* ------------------------------------------------------------------------
AccountNext ==
  \/ RunEffects
  \/ \E r \in InFlight, outcome \in Outcomes : MeResponse(r, outcome)
  \/ \E a \in Accounts : HandleSubmit(a)
  \/ \E r \in InFlight, outcome \in Outcomes : LoginResponse(r, outcome)
  \/ LogoutCall
  \/ \E r \in InFlight, outcome \in Outcomes : LogoutResponse(r, outcome)
  \/ UpdateProfileCall
  \/ \E r \in InFlight, outcome \in Outcomes : UpdateProfileResponse(r, outcome)
  \/ \E op \in PasswordOps : PasswordCall(op)
  \/ \E r \in InFlight, outcome \in Outcomes : PasswordResponse(r, outcome)
  \/ Reload
  \/ \E p \in Paths : UserNavigate(p)

AccountSpec == Init /\ [][AccountNext]_vars

\* ------------------------------------------------------------------------
\* The login specification: the login page of a visitor without a stored
\* token, submitted until the first answer navigates away, and the
\* validations the answers trigger
\* ------------------------------------------------------------------------
LoginInit ==
  /\ stored = NoToken
  /\ Mounted("/login")
  /\ query = NoQuery
  /\ answer = FALSE

LoginNext ==
  \/ RunEffects
  \/ \E a \in Accounts : HandleSubmit(a)
  \/ \E r \in InFlight, outcome \in Outcomes : LoginResponse(r, outcome)
  \/ \E r \in InFlight, outcome \in Outcomes : MeResponse(r, outcome)

LoginSpec == LoginInit /\ [][LoginNext]_vars

TypeOK ==
  /\ stored \in Tokens \cup {NoToken}
  /\ token \in Tokens \cup {NoToken}
  /\ loading \in BOOLEAN
  /\ authHeader \in Tokens \cup {NoToken}
  /\ path \in Paths
  /\ (effToken /\ token # NoToken) => BagCardinality(inflight) < MaxInFlight

\* ------------------------------------------------------------------------
\* The evaluator specification: the permission evaluator under every user
\* the session may hand it, asked every query
\* ------------------------------------------------------------------------
\* a role string the hierarchy does not know
UnknownRole == "intern"

Facilities == {"f1", "f2"}

\* the users the backend may answer with: any role (absent and unknown
\* included), facilities_access absent or a list
EvalUsers ==
  { [id |-> 1, role |-> role, updated |-> FALSE, facilities_access |-> fa] :
      role \in Roles \cup {Null, UnknownRole},
      fa \in {NoFacilities} \cup { [present |-> TRUE, ids |-> ids] : ids \in SUBSET Facilities } }

\* permission names asked for: the keys of the table, the name the /documents
\* route and the sidebar ask for, and a name nobody defines
PermissionNames == DOMAIN PERMISSIONS \cup {"canViewDocuments", "canFly"}

\* the levels a component may require: those of the hierarchy and one below
Levels == 0 .. Cardinality(Roles)

\* a facility no user is listed for
OtherFacility == "f3"

\* the session hands the evaluator another currentUser (or none)
EvalSetUser(u) ==
  /\ ~EffectsPending
  /\ currentUser' = u
  /\ NoQueryAsked
  /\ UNCHANGED << stored, token, loading, authHeader, roleVars, path, inflight,
                  navPending, ret, hookVars >>
  /\ Commit

\* a component calls hasPermission(permission) during a render
AskHasPermission(permission) ==
  /\ query' = Query("hasPermission", permission, 0)
  /\ answer' = hasPermission(userRole, permission)
  /\ UNCHANGED << sessionVars, roleVars, path, inflight, navPending, effToken,
                  effUser, ret, hookVars >>

\* a component calls hasRoleLevel(requiredLevel)
AskHasRoleLevel(requiredLevel) ==
  /\ query' = Query("hasRoleLevel", Null, requiredLevel)
  /\ answer' = hasRoleLevel(roleLevel, requiredLevel)
  /\ UNCHANGED << sessionVars, roleVars, path, inflight, navPending, effToken,
                  effUser, ret, hookVars >>

\* a component calls hasHigherRoleThan(otherUserRole)
AskHasHigherRoleThan(otherUserRole) ==
  /\ query' = Query("hasHigherRoleThan", otherUserRole, 0)
  /\ answer' = hasHigherRoleThan(roleLevel, otherUserRole)
  /\ UNCHANGED << sessionVars, roleVars, path, inflight, navPending, effToken,
                  effUser, ret, hookVars >>

\* a component calls canAccessFacility(facilityId)
AskCanAccessFacility(facilityId) ==
  /\ query' = Query("canAccessFacility", facilityId, 0)
  /\ answer' = canAccessFacility(currentUser, userRole, facilityId)
  /\ UNCHANGED << sessionVars, roleVars, path, inflight, navPending, effToken,
                  effUser, ret, hookVars >>

\* a component calls getAvailableRoles()
AskGetAvailableRoles ==
  /\ query' = Query("getAvailableRoles", Null, 0)
  /\ answer' = getAvailableRoles(roleLevel)
  /\ UNCHANGED << sessionVars, roleVars, path, inflight, navPending, effToken,
                  effUser, ret, hookVars >>

\* a component calls getRoleDisplayName(role) or getRoleDisplayName()
AskGetRoleDisplayName(role) ==
  /\ query' = Query("getRoleDisplayName", role, 0)
  /\ answer' = getRoleDisplayName(userRole, role)
  /\ UNCHANGED << sessionVars, roleVars, path, inflight, navPending, effToken,
                  effUser, ret, hookVars >>

\* a component calls getRoleColor(role) or getRoleColor()
AskGetRoleColor(role) ==
  /\ query' = Query("getRoleColor", role, 0)
  /\ answer' = getRoleColor(userRole, role)
  /\ UNCHANGED << sessionVars, roleVars, path, inflight, navPending, effToken,
                  effUser, ret, hookVars >>

EvalInit ==
  /\ stored = NoToken
  /\ Mounted("/dashboard")
  /\ query = NoQuery
  /\ answer = FALSE

EvalNext ==
  \/ RunEffects
  \/ \E u \in EvalUsers \cup {NoUser} : EvalSetUser(u)
  \/ \E permission \in PermissionNames : AskHasPermission(permission)
  \/ \E requiredLevel \in Levels : AskHasRoleLevel(requiredLevel)
  \/ \E otherUserRole \in Roles \cup {UnknownRole} :
        AskHasHigherRoleThan(otherUserRole)
  \/ \E facilityId \in Facilities \cup {OtherFacility} :
        AskCanAccessFacility(facilityId)
  \/ AskGetAvailableRoles
  \/ \E role \in Roles \cup {UnknownRole, Default} : AskGetRoleDisplayName(role)
  \/ \E role \in Roles \cup {UnknownRole, Default} : AskGetRoleColor(role)

EvalSpec == EvalInit /\ [][EvalNext]_vars

\* ------------------------------------------------------------------------
\* C1: under every role R of the 8 roles and for every permission name P,
\* hasPermission(P) is exactly the membership of R in PERMISSIONS[P]; it is
\* false when no role is set and false when P is no key of the table.
\* ------------------------------------------------------------------------
C1_HasPermissionIsMembership ==
  query.fn = "hasPermission" =>
    /\ (userRole \in Roles /\ query.arg \in DOMAIN PERMISSIONS)
          => (answer <=> userRole \in PERMISSIONS[query.arg])
    /\ userRole = Null => answer = FALSE
    /\ query.arg \notin DOMAIN PERMISSIONS => answer = FALSE

\* an admin is granted canManageUsers
C1_Witness ==
  /\ query = Query("hasPermission", "canManageUsers", 0)
  /\ userRole = "admin"
  /\ answer = TRUE

\* ------------------------------------------------------------------------
\* C2: the route guard renders its children only with a currentUser, loading
\* false and the required permission (if any) granted by hasPermission; with
\* loading false and no currentUser it redirects to /login; with a
\* currentUser and the required permission denied it redirects to /dashboard.
\* ------------------------------------------------------------------------
C2_RouteGuard ==
  LET required == RequiredPermission(path)
      denied == required # Null /\ ~hasPermission(userRole, required)
  IN  path \in ProtectedPaths =>
        /\ View = "children" => (currentUser # NoUser /\ ~loading /\ ~denied)
        /\ (~loading /\ currentUser = NoUser) => View = "to_login"
        /\ (~loading /\ currentUser # NoUser /\ denied) => View = "to_dashboard"

\* a viewer on the canAccessAdminPanel route is sent to /dashboard
C2_Witness ==
  /\ path = "/users"
  /\ ~loading
  /\ currentUser.role = "viewer"
  /\ userRole = "viewer"
  /\ View = "to_dashboard"

\* ------------------------------------------------------------------------
\* C3: in every reachable state of the session, currentUser present implies
\* token present.
\* ------------------------------------------------------------------------
C3_UserImpliesToken == currentUser # NoUser => token # NoToken

\* ------------------------------------------------------------------------
\* C4: after initialize() resolves (no stored token, or /auth/me has succeeded
\* or failed), loading is false and exactly one of these holds: currentUser
\* is set and a token is present, or currentUser, the token in memory and the
\* token in storage are all absent.
\* ------------------------------------------------------------------------
C4_InitializeResolved ==
  ret.op \in {"initialize", "validateToken"} =>
    /\ ~loading
    /\ \/ currentUser # NoUser /\ token # NoToken
       \/ currentUser = NoUser /\ token = NoToken /\ stored = NoToken

\* ------------------------------------------------------------------------
\* C5: if every /auth/me request is answered, loading becomes false after
\* every start of the page, and once false it stays false for as long as the
\* page lives (only the replacement of the document starts it at true again).
\* ------------------------------------------------------------------------
FairSpec ==
  /\ Spec
  /\ WF_vars(RunEffects)
  /\ SF_vars(\E r \in InFlight, outcome \in Outcomes : MeResponse(r, outcome))

C5_LoadingSettlesOnce ==
  /\ loading ~> ~loading
  /\ [][(~loading /\ loading') => Reload]_vars

\* the validation of a stored token has been answered and loading is false
C5_Witness ==
  /\ ret.op = "validateToken"
  /\ ~loading

\* ------------------------------------------------------------------------
\* C6: a successful login stores the returned access_token in storage and in
\* memory and sets the returned user as currentUser; a failed login, whatever
\* the failure, returns {success: false, error} and leaves the stored token,
\* the token in memory and currentUser as they were.
\* ------------------------------------------------------------------------
C6_LoginResult ==
  [][ret'.op = "login" =>
        IF ret'.success
          THEN /\ stored' \in Tokens
               /\ token' = stored'
               /\ currentUser' # NoUser
               /\ currentUser'.id = stored'
          ELSE /\ ret'.error # ""
               /\ stored' = stored
               /\ token' = token
               /\ currentUser' = currentUser]_vars

\* ------------------------------------------------------------------------
\* C7: when logout() completes, the stored token, the token in memory,
\* currentUser and the default Authorization header are all cleared, whether
\* POST /auth/logout succeeded, failed or was not sent.
\* ------------------------------------------------------------------------
C7_LogoutClears ==
  ret.op = "logout" =>
    /\ stored = NoToken
    /\ token = NoToken
    /\ currentUser = NoUser
    /\ authHeader = NoToken

\* logout has completed although its server call failed
C7_Witness ==
  /\ ret.op = "logout"
  /\ ret.outcome \in Failures
  /\ stored = NoToken
  /\ currentUser = NoUser

\* ------------------------------------------------------------------------
\* C8: a refreshToken call that was in flight when logout cleared the session
\* and then succeeds changes nothing of the session: a logged-out session
\* stays logged out.
\* ------------------------------------------------------------------------
LoggedOut == stored = NoToken /\ token = NoToken /\ currentUser = NoUser

C9_UnauthorizedLogsOut ==
  [][(ret'.outcome = "unauthorized" /\ currentUser # NoUser) =>
        /\ stored' = NoToken
        /\ navPending'
        /\ \/ UNCHANGED << path, currentUser, token, loading >>
           \/ /\ currentUser' = NoUser
              /\ (path' = "/login" \/ RedirectTarget' = "/login")]_vars

\* ------------------------------------------------------------------------
\* C10: every request leaves with the token stored when it is sent as its
\* bearer credential, and with no bearer credential when no token is stored.
\* ------------------------------------------------------------------------
JustSent(r) ==
  /\ ~r.loggedOut
  /\ CopiesIn(r, inflight') > CopiesIn(r, inflight)

C10_BearerIsStoredToken ==
  [][\A r \in BagToSet(inflight') : JustSent(r) => r.bearer = stored']_vars

\* ------------------------------------------------------------------------
\* C12: ROLE_HIERARCHY maps the 8 roles one-to-one onto the levels 8..1 in
\* the order super_admin > admin > engineer_of_record > management >
\* tsf_operator > regulator > consultant > viewer: every role has a level,
\* no two roles share one, and the level the provider derives for the
\* current role is the one of that order.
\* ------------------------------------------------------------------------
C12_HierarchyIsTotalOrder ==
  LET order == << "super_admin", "admin", "engineer_of_record", "management",
                  "tsf_operator", "regulator", "consultant", "viewer" >>
  IN  /\ DOMAIN ROLE_HIERARCHY = Roles
      /\ \A i \in 1..8 : ROLE_HIERARCHY[order[i]] = 9 - i
      /\ \A r1, r2 \in Roles :
            r1 # r2 => ROLE_HIERARCHY[r1] # ROLE_HIERARCHY[r2]
      /\ userRole \in Roles =>
            \E i \in 1..8 : userRole = order[i] /\ roleLevel = 9 - i

\* the provider has derived level 5 for a management user
C12_Witness ==
  /\ currentUser.role = "management"
  /\ userRole = "management"
  /\ roleLevel = 5

\* ------------------------------------------------------------------------
\* C13: hasHigherRoleThan(R2) under the current role R1 is true iff
\* level(R1) > level(R2), an unknown R2 counting as level 0; the relation is
\* irreflexive, asymmetric, transitive and total on distinct roles.
\* ------------------------------------------------------------------------
C13_HigherRoleIsStrictOrder ==
  LET level(r) == IF r \in Roles THEN ROLE_HIERARCHY[r] ELSE 0
      higher(r1, r2) == hasHigherRoleThan(ROLE_HIERARCHY[r1], r2)
  IN  /\ (query.fn = "hasHigherRoleThan" /\ userRole \in Roles) =>
            (answer <=> level(userRole) > level(query.arg))
      /\ \A r \in Roles : ~higher(r, r)
      /\ \A r1, r2 \in Roles : higher(r1, r2) => ~higher(r2, r1)
      /\ \A r1, r2 \in Roles : r1 # r2 => higher(r1, r2) \/ higher(r2, r1)
      /\ \A r1, r2, r3 \in Roles :
            (higher(r1, r2) /\ higher(r2, r3)) => higher(r1, r3)
      /\ \A r \in Roles : higher(r, UnknownRole)

\* an admin asked whether it is above another admin, and answered no
C13_Witness ==
  /\ query = Query("hasHigherRoleThan", "admin", 0)
  /\ userRole = "admin"
  /\ answer = FALSE

\* ------------------------------------------------------------------------
\* C14: for every user and facility id, canAccessFacility(facilityId) is true
\* iff the user has no facilities_access list, or facilityId is in the list,
\* or the user's role holds canViewAllDocuments.
\* ------------------------------------------------------------------------
C14_FacilityAccess ==
  (query.fn = "canAccessFacility" /\ currentUser # NoUser
     /\ userRole = currentUser.role) =>
    (answer <=> \/ ~currentUser.facilities_access.present
                \/ query.arg \in currentUser.facilities_access.ids
                \/ userRole \in PERMISSIONS["canViewAllDocuments"])

\* C14 as amended: canAccessFacility(facilityId) is true iff facilityId is in
\* the user's facilities_access list or the current role holds
\* canViewAllDocuments; without a list the role alone decides.
C14_FacilityAccessByListOrRole ==
  query.fn = "canAccessFacility" =>
    (answer <=> \/ /\ currentUser.facilities_access.present
                   /\ query.arg \in currentUser.facilities_access.ids
                \/ userRole \in PERMISSIONS["canViewAllDocuments"])

\* a tsf_operator without a list was refused a facility
C14_Witness ==
  /\ query.fn = "canAccessFacility"
  /\ currentUser.role = "tsf_operator"
  /\ userRole = "tsf_operator"
  /\ ~currentUser.facilities_access.present
  /\ answer = FALSE

\* ------------------------------------------------------------------------
\* C15: getAvailableRoles() under a current role of level L returns exactly
\* the roles of level <= L, each once; the result for a higher level contains
\* the result for a lower level and is never shorter.
\* ------------------------------------------------------------------------
C15_AvailableRoles ==
  LET range(seq) == { seq[i] : i \in DOMAIN seq }
  IN  /\ (query.fn = "getAvailableRoles" /\ userRole \in Roles) =>
            /\ range(answer) = { r \in Roles :
                                   ROLE_HIERARCHY[r] <= ROLE_HIERARCHY[userRole] }
            /\ Len(answer) = Cardinality(range(answer))
      /\ \A l1, l2 \in Levels :
            l1 <= l2 =>
              /\ range(getAvailableRoles(l1)) \subseteq range(getAvailableRoles(l2))
              /\ Len(getAvailableRoles(l1)) <= Len(getAvailableRoles(l2))

\* a management user was offered the five roles up to its own
C15_Witness ==
  /\ query.fn = "getAvailableRoles"
  /\ userRole = "management"
  /\ Len(answer) = 5

\* ------------------------------------------------------------------------
\* C16: with no current user, or a current user whose role is absent or not
\* one of the 8 roles, every query gives the least-privileged answer:
\* hasPermission, hasRoleLevel(1..8), hasHigherRoleThan(R) and
\* canAccessFacility are false, getAvailableRoles() is empty, and
\* getRoleDisplayName / getRoleColor give 'Unknown Role' and the default color.
\* ------------------------------------------------------------------------
C16_LeastPrivilege ==
  (currentUser.role \notin Roles /\ userRole = currentUser.role) =>
    /\ query.fn = "hasPermission" => answer = FALSE
    /\ (query.fn = "hasRoleLevel" /\ query.level \in 1..8) => answer = FALSE
    /\ (query.fn = "hasHigherRoleThan" /\ query.arg \in Roles) => answer = FALSE
    /\ query.fn = "canAccessFacility" => answer = FALSE
    /\ query.fn = "getAvailableRoles" => answer = << >>
    /\ (query.fn = "getRoleDisplayName" /\ query.arg \in {Default, UnknownRole})
          => answer = "Unknown Role"
    /\ (query.fn = "getRoleColor" /\ query.arg \in {Default, UnknownRole})
          => answer = "#616161"

\* ------------------------------------------------------------------------
\* C11: the session only moves from starting (Uninitialized, Validating) to
\* Authenticated or Unauthenticated, from Unauthenticated to Authenticated by
\* a successful login, and from Authenticated to Unauthenticated by logout or
\* by a 401 (whose interception replaces the document and starts the page
\* again); no other failure ends an Authenticated session.
\* ------------------------------------------------------------------------
C11_Transitions ==
  [][LET state(user, isLoading) ==
           IF user # NoUser THEN "Authenticated"
           ELSE IF isLoading THEN "Starting"
           ELSE "Unauthenticated"
         from == state(currentUser, loading)
         to == state(currentUser', loading')
     IN  from # to =>
           \/ navPending /\ ~navPending' /\ to = "Starting"
           \/ from = "Starting"
           \/ /\ from = "Unauthenticated"
              /\ to = "Authenticated"
              /\ ret'.op = "login"
              /\ ret'.success
           \/ /\ from = "Authenticated"
              /\ to = "Unauthenticated"
              /\ (ret'.op = "logout" \/ ret'.outcome = "unauthorized")]_vars

\* ------------------------------------------------------------------------
\* C17: updateProfile replaces currentUser with the returned user on success
\* and leaves it unchanged on failure; changePassword, requestPasswordReset
\* and resetPassword never change token, stored token, currentUser or
\* loading; none of the four changes the token.
\* ------------------------------------------------------------------------
C17_AccountFrames ==
  [][/\ ret'.op = "updateProfile" =>
          /\ token' = token
          /\ IF ret'.success
               THEN currentUser' # NoUser /\ currentUser'.updated
               ELSE currentUser' = currentUser
     /\ ret'.op \in PasswordOps =>
          /\ token' = token
          /\ stored' = stored
          /\ currentUser' = currentUser
          /\ loading' = loading]_vars

\* ------------------------------------------------------------------------
\* C18: login, updateProfile, changePassword, requestPasswordReset,
\* resetPassword and logout return to their caller on every failure instead
\* of raising; those that return a result return {success: false, error},
\* error being the backend's detail or else the operation's default message,
\* never empty.
\* ------------------------------------------------------------------------
C18_FailuresNormalised ==
  LET default == [ login                |-> "Login failed",
                   updateProfile        |-> "Profile update failed",
                   changePassword       |-> "Password change failed",
                   requestPasswordReset |-> "Password reset request failed",
                   resetPassword        |-> "Password reset failed" ]
  IN  (ret.op \in DOMAIN default \cup {"logout"} /\ ret.outcome \in Failures) =>
        /\ ~ret.raised
        /\ ret.op \in DOMAIN default =>
             /\ ~ret.success
             /\ ret.error # ""
             /\ ret.error = IF ret.outcome = "network"
                               THEN default[ret.op]
                               ELSE "detail"

\* a login that got no response returned its default message
C18_Witness ==
  /\ ret.op = "login"
  /\ ret.outcome = "network"
  /\ ~ret.raised
  /\ ret.error = "Login failed"

\* ------------------------------------------------------------------------
\* C19: in every state a render can see, a token without a currentUser means
\* the session is still validating (loading is true); login sets token and
\* currentUser together and logout clears them together.
\* ------------------------------------------------------------------------
C19_TokenAndUserTogether ==
  /\ (token # NoToken /\ currentUser = NoUser) => loading
  /\ (ret.op = "login" /\ ret.success) =>
        (token # NoToken /\ currentUser # NoUser)
  /\ ret.op = "logout" => (token = NoToken /\ currentUser = NoUser)

\* a stored token is being validated: token set, no currentUser yet
C19_Witness ==
  /\ token # NoToken
  /\ currentUser = NoUser
  /\ loading
  /\ \E r \in InFlight : r.op = "me"

\* ------------------------------------------------------------------------
\* C20: whatever the interleaving of two concurrent logins and of the
\* validations they trigger, once every response has been delivered a session
\* that is left has the same token in storage and in memory, the token is the
\* access_token of one of the logins, and currentUser is the user of that
\* token.
\* ------------------------------------------------------------------------
C20_ConcurrentLogins ==
  (/\ inflight = EmptyBag
   /\ ~EffectsPending
   /\ ~navPending
   /\ (stored # NoToken \/ token # NoToken \/ currentUser # NoUser)) =>
    /\ stored = token
    /\ token \in Tokens
    /\ currentUser # NoUser
    /\ currentUser.id = token

\* ------------------------------------------------------------------------
\* C21: starting without a session, a login answered with the token and the
\* user of the super_admin account leads to the authenticated state with that
\* token and that user; once the providers have settled, the evaluator grants
\* canAccessAdminPanel and getAvailableRoles() lists all eight roles; and the
\* session of the super_admin stays authenticated in every step that is
\* neither a logout nor the handling of a 401
\* ------------------------------------------------------------------------
C21_SuperAdminLogin ==
  [][ /\ (ret'.op = "login" /\ ret'.success /\ AccountRole(currentUser'.id) = "super_admin")
           => /\ token' = currentUser'.id
              /\ stored' = token'
              /\ currentUser' = UserData(token', FALSE)
      /\ (currentUser'.role = "super_admin" /\ ~EffectsPending')
           => /\ hasPermission(userRole', "canAccessAdminPanel")
              /\ getAvailableRoles(roleLevel') = USER_ROLES
      /\ (currentUser.role = "super_admin" /\ token # NoToken
            /\ ret'.op # "logout" /\ ret'.outcome # "unauthorized")
           => (currentUser' # NoUser /\ token' # NoToken)
    ]_vars

\* LoginPage.handleSubmit after its await: the inline error the page holds.
\* setError('') has run before the call, and the catch, which alone sets a
\* message, runs only when login threw
handleSubmitError(result) ==
  IF result.raised
    THEN ErrorMessage(result.outcome, "Login failed. Please check your credentials.")
    ELSE ""

\* ------------------------------------------------------------------------
\* C22: when a login submitted from the login page is refused by the server
\* (an error response carrying a detail, with status 401 or another), the
\* login page stays displayed with a non-empty inline error message and no
\* navigation away from /login is performed
\* ------------------------------------------------------------------------
C22_FailedLoginStaysOnLoginPage ==
  [][ (/\ path = "/login"
       /\ ret'.op = "login"
       /\ ret'.outcome \in {"unauthorized", "error_detail"})
        => (path' = "/login" /\ handleSubmitError(ret') # "")
    ]_vars

\* ------------------------------------------------------------------------
\* C23: an authenticated super_admin has full access: the evaluator grants
\* every permission key of the table, and on every protected route the guard
\* renders the page instead of redirecting
\* ------------------------------------------------------------------------
C23_SuperAdminFullAccess ==
  (/\ currentUser.role = "super_admin"
   /\ userRole = "super_admin"
   /\ ~loading) =>
    /\ \A permission \in DOMAIN PERMISSIONS : hasPermission(userRole, permission)
    /\ path \in ProtectedPaths => View = "children"

\* ------------------------------------------------------------------------
\* C24: under the role admin, hasPermission('canManageUsers') is true,
\* hasHigherRoleThan('super_admin') is false and getAvailableRoles() does not
\* contain super_admin; and under no role does getAvailableRoles() contain a
\* role whose level is strictly above the caller's
\* ------------------------------------------------------------------------
C24_AdminBelowSuperAdmin ==
  /\ (userRole = "admin" /\ query = Query("hasPermission", "canManageUsers", 0))
       => answer = TRUE
  /\ (userRole = "admin" /\ query = Query("hasHigherRoleThan", "super_admin", 0))
       => answer = FALSE
  /\ query.fn = "getAvailableRoles" =>
       /\ userRole = "admin" => \A i \in DOMAIN answer : answer[i] # "super_admin"
       /\ \A i \in DOMAIN answer : LevelOf(answer[i]) <= LevelOf(userRole)

\* the admin is offered a non-empty list of roles that stops below super_admin
C24_Witness ==
  /\ userRole = "admin"
  /\ currentUser.role = "admin"
  /\ query.fn = "getAvailableRoles"
  /\ Len(answer) = 7
  /\ \A i \in DOMAIN answer : answer[i] # "super_admin"

\* ------------------------------------------------------------------------
\* C25: in every committed render the provider's userRole and roleLevel are
\* those of the session's currentUser of that same render (null and 0 when
\* there is none), so that a user whose role holds the permission of the
\* guarded route being shown is never handed the redirect to /dashboard
\* ------------------------------------------------------------------------
C25_RoleFollowsUser ==
  /\ userRole = currentUser.role
  /\ roleLevel = LevelOf(currentUser.role)
  /\ (/\ currentUser # NoUser
      /\ ~loading
      /\ path \in ProtectedPaths
      /\ RequiredPermission(path) # Null
      /\ hasPermission(currentUser.role, RequiredPermission(path)))
       => View # "to_dashboard"

\* ------------------------------------------------------------------------
\* C26: a token validation, a login or a profile update that was in flight
\* when logout cleared the session and is then answered successfully sets
\* neither currentUser nor the token: a logged-out session, with no stored
\* token, stays so
\* ------------------------------------------------------------------------
C26_LateSuccessDiscarded ==
  [][(/\ ret'.op \in {"validateToken", "login", "updateProfile"}
      /\ ret'.success
      /\ ret'.afterLogout) =>
        /\ token' = token
        /\ currentUser' = currentUser
        /\ LoggedOut => LoggedOut']_vars

\* ------------------------------------------------------------------------
\* The users page (UsersPage.jsx) and its specification
\* ------------------------------------------------------------------------
\* UsersPage is what the route /users renders inside its guard
UsersPageMounted == path = "/users" /\ View = "children"

\* const isAdmin = hasPermission('canAccessAdminPanel')
isAdmin == hasPermission(userRole, "canAccessAdminPanel")

\* useQuery('users', users.getUsers, { enabled: isAdmin }): the mounted page's
\* query runs its function (first fetch, retry, refetch after an invalidation)
\* only while it is enabled
UsersQuery ==
  /\ ~EffectsPending
  /\ UsersPageMounted
  /\ isAdmin
  /\ Send("users", 0, authHeader)
  /\ ret' = NoReturn
  /\ UNCHANGED << sessionVars, roleVars, path, navPending, effToken, effUser,
                  evalVars, hookVars >>

\* GET /admin/users is answered: the response interceptor is all that touches
\* the session, the data or the error go to the query
UsersResponse(r, outcome) ==
  /\ ~EffectsPending
  /\ r \in InFlight
  /\ r.op = "users"
  /\ outcome = "ok" => r.bearer # NoToken
  /\ stored' = InterceptStored(stored, outcome)
  /\ navPending' = InterceptNav(navPending, outcome)
  /\ inflight' = Answered(r)
  /\ ret' = IF outcome = "ok"
              THEN Returned("getUsers", r, outcome, TRUE, "")
              ELSE Raised("getUsers", r, outcome)
  /\ UNCHANGED << token, currentUser, loading, authHeader, roleVars, path,
                  effToken, effUser, evalVars, hookVars >>

UsersNext ==
  \/ RunEffects
  \/ \E r \in InFlight, outcome \in Outcomes : MeResponse(r, outcome)
  \/ \E a \in Accounts : HandleSubmit(a)
  \/ \E r \in InFlight, outcome \in Outcomes : LoginResponse(r, outcome)
  \/ LogoutCall
  \/ \E r \in InFlight, outcome \in Outcomes : LogoutResponse(r, outcome)
  \/ UsersQuery
  \/ \E r \in InFlight, outcome \in Outcomes : UsersResponse(r, outcome)
  \/ Reload
  \/ \E p \in Paths : UserNavigate(p)

UsersSpec == Init /\ [][UsersNext]_vars

\* ------------------------------------------------------------------------
\* C27: GET /admin/users leaves only while there is a session and the current
\* role (the provider's, which is then also the role of the session's user)
\* is one of those the table lists for canAccessAdminPanel; with another role
\* or without a session the request is never sent
\* ------------------------------------------------------------------------
C27_UsersQueryOnlyForAdmins ==
  [][ (\E r \in BagToSet(inflight') : r.op = "users" /\ JustSent(r)) =>
        /\ currentUser # NoUser
        /\ userRole \in PERMISSIONS["canAccessAdminPanel"]
        /\ currentUser.role \in PERMISSIONS["canAccessAdminPanel"]
    ]_vars

\* the super_admin's users page has its request in flight
C27_Witness ==
  /\ UsersPageMounted
  /\ userRole = "super_admin"
  /\ \E r \in InFlight : r.op = "users" /\ r.bearer = currentUser.id

\* ------------------------------------------------------------------------
\* C28: from any location and any settled session (loading false), following
\* the redirects of the route table and of the guard ends after at most two
\* steps at a location that renders a page: /login when there is no current
\* user, otherwise the requested location or /dashboard; no chain of
\* redirects comes back to a location it has left
\* ------------------------------------------------------------------------
C28_RedirectsTerminate ==
  ~loading =>
    LET first  == NavigateTarget(path, loading, currentUser, userRole)
        second == NavigateTarget(first, loading, currentUser, userRole)
    IN  /\ RouteElement(second, loading, currentUser, userRole)
             \in {"children", "login_page"}
        /\ currentUser = NoUser => second = "/login"
        /\ currentUser # NoUser => second \in {path, "/dashboard"}
        /\ first # path => second # path

\* a visitor without a session at "/", sent to /dashboard and from there to
\* /login
C28_Witness ==
  /\ ~loading
  /\ currentUser = NoUser
  /\ path = "/"
  /\ NavigateTarget(path, loading, currentUser, userRole) = "/dashboard"
  /\ NavigateTarget("/dashboard", loading, currentUser, userRole) = "/login"

\* ------------------------------------------------------------------------
\* hooks/useAPI: apiCall, and its specification
\* ------------------------------------------------------------------------
\* err.response?.data?.detail || err.message || 'An unexpected error occurred':
\* an error without a response carries axios's message
handleError(outcome) == ErrorMessage(outcome, "Network Error")

\* apiCall(apiFunction, ...args) up to its await: setLoading(true),
\* setError(null), and the request of apiFunction leaves
apiCall ==
  /\ ~EffectsPending
  /\ apiLoading' = TRUE
  /\ apiError' = Null
  /\ Send("apiCall", 0, authHeader)
  /\ ret' = NoReturn
  /\ UNCHANGED << sessionVars, roleVars, path, navPending, effToken, effUser,
                  evalVars >>

\* the request of an apiCall is answered: the response interceptor, then try:
\* return the result, or catch: handleError(err) and throw err again, then
\* finally: setLoading(false)
apiCallSettles(r, outcome) ==
  /\ ~EffectsPending
  /\ r \in InFlight
  /\ r.op = "apiCall"
  /\ outcome = "ok" => r.bearer # NoToken
  /\ stored' = InterceptStored(stored, outcome)
  /\ navPending' = InterceptNav(navPending, outcome)
  /\ inflight' = Answered(r)
  /\ IF outcome = "ok"
       THEN /\ ret' = Returned("apiCall", r, outcome, TRUE, "")
            /\ UNCHANGED apiError
       ELSE /\ ret' = Raised("apiCall", r, outcome)
            /\ apiError' = handleError(outcome)
  /\ apiLoading' = FALSE
  /\ UNCHANGED << token, currentUser, loading, authHeader, roleVars, path,
                  effToken, effUser, evalVars >>

HookNext ==
  \/ RunEffects
  \/ \E r \in InFlight, outcome \in Outcomes : MeResponse(r, outcome)
  \/ apiCall
  \/ \E r \in InFlight, outcome \in Outcomes : apiCallSettles(r, outcome)
  \/ Reload
  \/ \E p \in Paths : UserNavigate(p)

HookSpec == Init /\ [][HookNext]_vars

\* ------------------------------------------------------------------------
\* C29: under any interleaving of overlapping apiCall invocations of the
\* useAPI hook, loading is true exactly while at least one apiCall is in
\* flight (true with one in flight, false once all have settled), and an
\* apiCall that fails records the normalised error message and throws the
\* error again
\* ------------------------------------------------------------------------
C29_HookLoadingTracksCalls ==
  [][ /\ apiLoading' = (\E r \in BagToSet(inflight') : r.op = "apiCall")
      /\ (ret'.op = "apiCall" /\ ret'.outcome \in Failures)
           => (ret'.raised /\ apiError' = ErrorMessage(ret'.outcome, "Network Error"))
    ]_vars

\* ------------------------------------------------------------------------
\* C30: the permission table is monotone in the role hierarchy: whenever a
\* role of a strictly lower level is allowed a permission, the evaluator
\* grants that permission to the current role
\* ------------------------------------------------------------------------
C30_TableMonotone ==
  (/\ query.fn = "hasPermission"
   /\ query.arg \in DOMAIN PERMISSIONS
   /\ userRole \in Roles) =>
    \A lower \in Roles :
      (LevelOf(userRole) > LevelOf(lower) /\ lower \in PERMISSIONS[query.arg])
        => answer = TRUE

\* C30, amended: the table is monotone in the role hierarchy except at two
\* roles: tsf_operator is not granted canViewAllDocuments and
\* canViewCompliance, which the regulator below it holds, and management is
\* not granted canEditMonitoring and canViewSyntheticData, which the
\* tsf_operator below it holds; every other permission allowed to a role of
\* a strictly lower level is granted to the current role
C30_TableMonotoneButTwoRoles ==
  (/\ query.fn = "hasPermission"
   /\ query.arg \in DOMAIN PERMISSIONS
   /\ userRole \in Roles
   /\ ~(userRole = "tsf_operator"
          /\ query.arg \in {"canViewAllDocuments", "canViewCompliance"})
   /\ ~(userRole = "management"
          /\ query.arg \in {"canEditMonitoring", "canViewSyntheticData"})) =>
    \A lower \in Roles :
      (LevelOf(userRole) > LevelOf(lower) /\ lower \in PERMISSIONS[query.arg])
        => answer = TRUE

\* management asks for a permission the regulator, two levels below, holds
C30_Witness ==
  /\ userRole = "management"
  /\ query = Query("hasPermission", "canViewAllDocuments", 0)
  /\ "regulator" \in PERMISSIONS[query.arg]
  /\ answer = TRUE

============================================================================
